---------------------------- MODULE Spec2Model ----------------------------
(***************************************************************************)
(* A model of the `length` crate (src/src/lib.rs): the unit taxonomy, the  *)
(* conversion engine Length::to, the normalizer Length::normalize, the     *)
(* parser Length::new_string and the arithmetic of Length.                 *)
(*                                                                         *)
(* Numbers.  The crate computes in f64; the properties checked here are    *)
(* stated in exact arithmetic, so an f64 is modelled by the exact real it  *)
(* denotes.  Every number the crate can form from its constants by         *)
(* multiplication and division is  sgn * pi^k * (product of prime powers), *)
(* and is represented by its sign, its exponent of pi and its exponents of *)
(* the primes of Basis.  Multiplication and division are then exact, and   *)
(* two representations are equal exactly when the numbers are equal (pi is *)
(* transcendental).                                                        *)
(***************************************************************************)
EXTENDS Integers, Naturals, Sequences, FiniteSets

VARIABLES
    client,    \* what the calling program exercises: "length", "arith", "inplace",
               \* "ladder", "symbol" or "parser"
    self,      \* the receiver: a Length [unit, value, original_string]
    ops,       \* how many in-place operations the receiver has undergone
    call,      \* the last operation on the receiver: its name and its argument
    ret,       \* what that operation returned (None when it returns nothing)
    run,       \* the execution record of that operation (None when it keeps none)
    walk,      \* a walk along a ladder: its direction and the units visited so far
    text,      \* a unit symbol string: typed in, or produced by to_string
    origin,    \* the unit whose to_string produced text (None when text was typed)
    parsed,    \* the result of from_str on text (None before the call)
    input,     \* the characters of a string that is handed to new_string
    made       \* the result of new_string on input (None before the call)

vars == <<client, self, ops, call, ret, run, walk, text, origin, parsed, input, made>>

None == [none |-> TRUE]

-----------------------------------------------------------------------------
(* Exact arithmetic *)

\* The primes that occur in the crate's constants and in the input values.
Basis == <<2, 3, 5, 7, 11, 23, 37, 47, 73, 101, 127, 487, 877, 7789, 293339>>

NB == Len(Basis)

ZeroPw == [i \in 1..NB |-> 0]

Zero == [sgn |-> 0, pw |-> ZeroPw, pi |-> 0]

One == [sgn |-> 1, pw |-> ZeroPw, pi |-> 0]

\* The literal std::f64::consts::PI, kept symbolic.
PI == [sgn |-> 1, pw |-> ZeroPw, pi |-> 1]

Mul(a, b) ==
    IF a.sgn = 0 \/ b.sgn = 0 THEN Zero
    ELSE [sgn |-> a.sgn * b.sgn,
          pw  |-> [i \in 1..NB |-> a.pw[i] + b.pw[i]],
          pi  |-> a.pi + b.pi]

\* 1 / a, for a # 0.
Inv(a) == [sgn |-> a.sgn, pw |-> [i \in 1..NB |-> 0 - a.pw[i]], pi |-> 0 - a.pi]

Div(a, b) == Mul(a, Inv(b))

\* -a
Neg(a) == [a EXCEPT !.sgn = 0 - a.sgn]

\* The exponent vector of the positive integer n, by trial division over Basis.
\* An n with a prime factor outside Basis has no representation: the CHOOSE
\* over the empty set stops the evaluation.
RECURSIVE Factorize(_, _, _)
Factorize(n, i, acc) ==
    IF n = 1 THEN acc
    ELSE IF i > NB THEN CHOOSE x \in {} : TRUE
    ELSE IF n % Basis[i] = 0
         THEN Factorize(n \div Basis[i], i, [acc EXCEPT ![i] = @ + 1])
         ELSE Factorize(n, i + 1, acc)

\* The integer n as a number.
Num(n) ==
    IF n = 0 THEN Zero
    ELSE IF n > 0 THEN [sgn |-> 1, pw |-> Factorize(n, 1, ZeroPw), pi |-> 0]
    ELSE [sgn |-> 0 - 1, pw |-> Factorize(0 - n, 1, ZeroPw), pi |-> 0]

RECURSIVE PowInt(_, _)
PowInt(b, e) == IF e = 0 THEN 1 ELSE b * PowInt(b, e - 1)

\* The product of Basis[i]^f[i] for i <= n.
RECURSIVE ProdTo(_, _)
ProdTo(f, n) == IF n = 0 THEN 1 ELSE PowInt(Basis[n], f[n]) * ProdTo(f, n - 1)

\* The numerator and the denominator of |q| in lowest terms, for a rational q.
Numerator(q) == ProdTo([i \in 1..NB |-> IF q.pw[i] > 0 THEN q.pw[i] ELSE 0], NB)

Denominator(q) == ProdTo([i \in 1..NB |-> IF q.pw[i] < 0 THEN 0 - q.pw[i] ELSE 0], NB)

\* a + b, for a and b whose quotient is a rational n/d: a + b = a * (d + n)/d.
\* Other sums (of a rational and a multiple of pi, or with a prime factor
\* outside Basis) have no representation: the CHOOSE over the empty set stops
\* the evaluation.
Add(a, b) ==
    IF a.sgn = 0 THEN b
    ELSE IF b.sgn = 0 THEN a
    ELSE LET q == Div(b, a)
             n == q.sgn * Numerator(q)
             d == Denominator(q)
         IN  IF q.pi # 0 THEN CHOOSE x \in {} : TRUE
             ELSE Mul(a, Div(Num(d + n), Num(d)))

\* a - b
Sub(a, b) == Add(a, Neg(b))

\* 10^k for any integer k.
Pow10(k) == [sgn |-> 1, pw |-> [i \in 1..NB |-> IF Basis[i] \in {2, 5} THEN k ELSE 0], pi |-> 0]

\* The decimal literal with digits m and k digits after the point: m / 10^k.
Dec(m, k) == Mul(Num(m), Pow10(0 - k))

\* floor(10^6 * ln p) for the primes of Basis, and for pi.
LnBasis == <<693147, 1098612, 1609437, 1945910, 2397895, 3135494, 3610917,
             3850147, 4290459, 4615120, 4844187, 6188264, 6776506, 8960467,
             12589084, 1144729>>

LnPi == LnBasis[NB + 1]

RECURSIVE SumTo(_, _)
SumTo(f, n) == IF n = 0 THEN 0 ELSE f[n] + SumTo(f, n - 1)

\* Bounds lo <= 10^6 * ln|a| <= hi for a # 0: each exponent e contributes
\* e * ln p, which lies between e * floor and e * (floor + 1).
LnLo(a) ==
    SumTo([i \in 1..NB |-> IF a.pw[i] >= 0 THEN a.pw[i] * LnBasis[i]
                                            ELSE a.pw[i] * (LnBasis[i] + 1)], NB)
    + (IF a.pi >= 0 THEN a.pi * LnPi ELSE a.pi * (LnPi + 1))

LnHi(a) ==
    SumTo([i \in 1..NB |-> IF a.pw[i] >= 0 THEN a.pw[i] * (LnBasis[i] + 1)
                                            ELSE a.pw[i] * LnBasis[i]], NB)
    + (IF a.pi >= 0 THEN a.pi * (LnPi + 1) ELSE a.pi * LnPi)

\* |a| compared with 1: "lt", "eq", "gt", or "undecided" when the bounds on
\* ln|a| do not settle it (|a| is then within about 10^-4 of 1 without being 1).
CmpOne(a) ==
    IF a.pw = ZeroPw /\ a.pi = 0 THEN "eq"
    ELSE IF LnLo(a) > 0 THEN "gt"
    ELSE IF LnHi(a) < 0 THEN "lt"
    ELSE "undecided"

Flip(c) == IF c = "lt" THEN "gt" ELSE IF c = "gt" THEN "lt" ELSE c

\* a compared with b.
Cmp(a, b) ==
    IF a.sgn # b.sgn THEN (IF a.sgn < b.sgn THEN "lt" ELSE "gt")
    ELSE IF a.sgn = 0 THEN "eq"
    ELSE IF a.sgn = 1 THEN CmpOne(Div(a, b))
    ELSE Flip(CmpOne(Div(a, b)))

Lt(a, b) == Cmp(a, b) = "lt"

Ge(a, b) == Cmp(a, b) \in {"gt", "eq"}

Gt(a, b) == Cmp(a, b) = "gt"

-----------------------------------------------------------------------------
(* The unit taxonomy *)

Astronomic(u) == [system |-> "Astronomic", unit |-> u]

Imperial(u) == [system |-> "Imperial", unit |-> u]

Metric(u) == [system |-> "Metric", unit |-> u]

UnitSystem == {"Astronomic", "Imperial", "Metric"}

AstronomicUnit ==
    {"AstronomicalUnit", "Lightsecond", "Lightminute", "Lighthour", "Lightday",
     "Lightyear", "Parsec", "Kiloparsec", "Megaparsec"}

ImperialUnit == {"Inch", "Foot", "Yard", "Mile"}

MetricUnit ==
    {"Yoctometer", "Zeptometer", "Attometer", "Femtometer", "Picometer",
     "Nanometer", "Micrometer", "Millimeter", "Centimeter", "Decimeter", "Meter",
     "Decameter", "Hectometer", "Kilometer", "Megameter", "Gigameter",
     "Terameter", "Petameter", "Exameter", "Zettameter", "Yottameter"}

Unit ==
    {Astronomic(u) : u \in AstronomicUnit} \cup {Imperial(u) : u \in ImperialUnit}
        \cup {Metric(u) : u \in MetricUnit}

Some(u) == [some |-> u]

system(u) == u.system

\* 0.9144
YARD_TO_METER_FACTOR == Dec(9144, 4)

\* 9_460_730_472_580_800.0 = 299792458 * 31557600
LIGHTYEAR_TO_METER_FACTOR == Mul(Num(299792458), Num(31557600))

\* 365.25
JulianYearDays == Dec(36525, 2)

LIGHTDAY_TO_LIGHTYEAR_FACTOR == Div(One, JulianYearDays)

LIGHTHOUR_TO_LIGHTYEAR_FACTOR == Div(One, Mul(JulianYearDays, Num(24)))

LIGHTMINUTE_TO_LIGHTYEAR_FACTOR == Div(One, Mul(Mul(JulianYearDays, Num(24)), Num(60)))

LIGHTSECOND_TO_LIGHTYEAR_FACTOR ==
    Div(One, Mul(Mul(Mul(JulianYearDays, Num(24)), Num(60)), Num(60)))

\* 149_597_870_700.0 / 9_460_730_472_580_800.0, with 149597870700 = 1495978707 * 100
ASTRONOMICAL_UNIT_TO_LIGHTYEAR_FACTOR ==
    Div(Mul(Num(1495978707), Num(100)), LIGHTYEAR_TO_METER_FACTOR)

PARSEC_TO_ASTRONOMICAL_UNITS_FACTOR == Div(Num(648000), PI)

PARSEC_TO_LIGHTYEAR_FACTOR ==
    Mul(ASTRONOMICAL_UNIT_TO_LIGHTYEAR_FACTOR, PARSEC_TO_ASTRONOMICAL_UNITS_FACTOR)

KILOPARSEC_TO_LIGHTYEAR_FACTOR == Mul(PARSEC_TO_LIGHTYEAR_FACTOR, Num(1000))

MEGAPARSEC_TO_LIGHTYEAR_FACTOR == Mul(PARSEC_TO_LIGHTYEAR_FACTOR, Num(1000000))

AstronomicUnit_factor(u) ==
    CASE u = "AstronomicalUnit" -> ASTRONOMICAL_UNIT_TO_LIGHTYEAR_FACTOR
      [] u = "Lightsecond" -> LIGHTSECOND_TO_LIGHTYEAR_FACTOR
      [] u = "Lightminute" -> LIGHTMINUTE_TO_LIGHTYEAR_FACTOR
      [] u = "Lighthour" -> LIGHTHOUR_TO_LIGHTYEAR_FACTOR
      [] u = "Lightday" -> LIGHTDAY_TO_LIGHTYEAR_FACTOR
      [] u = "Lightyear" -> One
      [] u = "Parsec" -> PARSEC_TO_LIGHTYEAR_FACTOR
      [] u = "Kiloparsec" -> KILOPARSEC_TO_LIGHTYEAR_FACTOR
      [] u = "Megaparsec" -> MEGAPARSEC_TO_LIGHTYEAR_FACTOR

AstronomicUnit_smaller_unit(u) ==
    CASE u = "AstronomicalUnit" -> None
      [] u = "Lightsecond" -> Some(Astronomic("AstronomicalUnit"))
      [] u = "Lightminute" -> Some(Astronomic("Lightsecond"))
      [] u = "Lighthour" -> Some(Astronomic("Lightminute"))
      [] u = "Lightday" -> Some(Astronomic("Lighthour"))
      [] u = "Lightyear" -> Some(Astronomic("Lightday"))
      [] u = "Parsec" -> Some(Astronomic("Lightyear"))
      [] u = "Kiloparsec" -> Some(Astronomic("Parsec"))
      [] u = "Megaparsec" -> Some(Astronomic("Kiloparsec"))

AstronomicUnit_greater_unit(u) ==
    CASE u = "AstronomicalUnit" -> Some(Astronomic("Lightsecond"))
      [] u = "Lightsecond" -> Some(Astronomic("Lightminute"))
      [] u = "Lightminute" -> Some(Astronomic("Lighthour"))
      [] u = "Lighthour" -> Some(Astronomic("Lightday"))
      [] u = "Lightday" -> Some(Astronomic("Lightyear"))
      [] u = "Lightyear" -> Some(Astronomic("Parsec"))
      [] u = "Parsec" -> Some(Astronomic("Kiloparsec"))
      [] u = "Kiloparsec" -> Some(Astronomic("Megaparsec"))
      [] u = "Megaparsec" -> None

AstronomicUnit_to_string(u) ==
    CASE u = "AstronomicalUnit" -> "au"
      [] u = "Lightsecond" -> "ls"
      [] u = "Lightminute" -> "lm"
      [] u = "Lighthour" -> "lh"
      [] u = "Lightday" -> "ld"
      [] u = "Lightyear" -> "ly"
      [] u = "Parsec" -> "pc"
      [] u = "Kiloparsec" -> "kpc"
      [] u = "Megaparsec" -> "Mpc"

ImperialUnit_factor(u) ==
    CASE u = "Inch" -> Num(1)
      [] u = "Foot" -> Num(12)
      [] u = "Yard" -> Num(36)
      [] u = "Mile" -> Num(63360)

\* Mutant: the link from Foot down to Inch is missing.
ImperialUnit_smaller_unit_no_inch(u) ==
    CASE u = "Inch" -> None
      [] u = "Foot" -> None
      [] u = "Yard" -> Some(Imperial("Foot"))
      [] u = "Mile" -> Some(Imperial("Yard"))

ImperialUnit_smaller_unit(u) ==
    CASE u = "Inch" -> None
      [] u = "Foot" -> Some(Imperial("Inch"))
      [] u = "Yard" -> Some(Imperial("Foot"))
      [] u = "Mile" -> Some(Imperial("Yard"))

\* Mutant: Foot steps up to Mile, skipping Yard.
ImperialUnit_greater_unit_skip_yard(u) ==
    CASE u = "Inch" -> Some(Imperial("Foot"))
      [] u = "Foot" -> Some(Imperial("Mile"))
      [] u = "Yard" -> Some(Imperial("Mile"))
      [] u = "Mile" -> None

ImperialUnit_greater_unit(u) ==
    CASE u = "Inch" -> Some(Imperial("Foot"))
      [] u = "Foot" -> Some(Imperial("Yard"))
      [] u = "Yard" -> Some(Imperial("Mile"))
      [] u = "Mile" -> None

\* Mutant: Mile is given the symbol of Meter.
ImperialUnit_to_string_mile_as_m(u) ==
    CASE u = "Inch" -> "in"
      [] u = "Foot" -> "ft"
      [] u = "Yard" -> "yd"
      [] u = "Mile" -> "m"

ImperialUnit_to_string(u) ==
    CASE u = "Inch" -> "in"
      [] u = "Foot" -> "ft"
      [] u = "Yard" -> "yd"
      [] u = "Mile" -> "mi"

\* Mutant: Megameter is given the factor 100_000.0.
MetricUnit_factor_short_mega(u) ==
    CASE u = "Yoctometer" -> Pow10(0 - 24)
      [] u = "Zeptometer" -> Pow10(0 - 21)
      [] u = "Attometer" -> Pow10(0 - 18)
      [] u = "Femtometer" -> Pow10(0 - 15)
      [] u = "Picometer" -> Pow10(0 - 12)
      [] u = "Nanometer" -> Pow10(0 - 9)
      [] u = "Micrometer" -> Pow10(0 - 6)
      [] u = "Millimeter" -> Pow10(0 - 3)
      [] u = "Centimeter" -> Pow10(0 - 2)
      [] u = "Decimeter" -> Pow10(0 - 1)
      [] u = "Meter" -> Pow10(0)
      [] u = "Decameter" -> Pow10(1)
      [] u = "Hectometer" -> Pow10(2)
      [] u = "Kilometer" -> Pow10(3)
      [] u = "Megameter" -> Pow10(5)
      [] u = "Gigameter" -> Pow10(9)
      [] u = "Terameter" -> Pow10(12)
      [] u = "Petameter" -> Pow10(15)
      [] u = "Exameter" -> Pow10(18)
      [] u = "Zettameter" -> Pow10(21)
      [] u = "Yottameter" -> Pow10(24)

MetricUnit_factor(u) ==
    CASE u = "Yoctometer" -> Pow10(0 - 24)
      [] u = "Zeptometer" -> Pow10(0 - 21)
      [] u = "Attometer" -> Pow10(0 - 18)
      [] u = "Femtometer" -> Pow10(0 - 15)
      [] u = "Picometer" -> Pow10(0 - 12)
      [] u = "Nanometer" -> Pow10(0 - 9)
      [] u = "Micrometer" -> Pow10(0 - 6)
      [] u = "Millimeter" -> Pow10(0 - 3)
      [] u = "Centimeter" -> Pow10(0 - 2)
      [] u = "Decimeter" -> Pow10(0 - 1)
      [] u = "Meter" -> Pow10(0)
      [] u = "Decameter" -> Pow10(1)
      [] u = "Hectometer" -> Pow10(2)
      [] u = "Kilometer" -> Pow10(3)
      [] u = "Megameter" -> Pow10(6)
      [] u = "Gigameter" -> Pow10(9)
      [] u = "Terameter" -> Pow10(12)
      [] u = "Petameter" -> Pow10(15)
      [] u = "Exameter" -> Pow10(18)
      [] u = "Zettameter" -> Pow10(21)
      [] u = "Yottameter" -> Pow10(24)

MetricUnit_smaller_unit(u) ==
    CASE u = "Yoctometer" -> None
      [] u = "Zeptometer" -> Some(Metric("Yoctometer"))
      [] u = "Attometer" -> Some(Metric("Zeptometer"))
      [] u = "Femtometer" -> Some(Metric("Attometer"))
      [] u = "Picometer" -> Some(Metric("Femtometer"))
      [] u = "Nanometer" -> Some(Metric("Picometer"))
      [] u = "Micrometer" -> Some(Metric("Nanometer"))
      [] u = "Millimeter" -> Some(Metric("Micrometer"))
      [] u = "Centimeter" -> Some(Metric("Millimeter"))
      [] u = "Decimeter" -> Some(Metric("Centimeter"))
      [] u = "Meter" -> Some(Metric("Decimeter"))
      [] u = "Decameter" -> Some(Metric("Meter"))
      [] u = "Hectometer" -> Some(Metric("Decameter"))
      [] u = "Kilometer" -> Some(Metric("Hectometer"))
      [] u = "Megameter" -> Some(Metric("Kilometer"))
      [] u = "Gigameter" -> Some(Metric("Megameter"))
      [] u = "Terameter" -> Some(Metric("Gigameter"))
      [] u = "Petameter" -> Some(Metric("Terameter"))
      [] u = "Exameter" -> Some(Metric("Petameter"))
      [] u = "Zettameter" -> Some(Metric("Exameter"))
      [] u = "Yottameter" -> Some(Metric("Zettameter"))

MetricUnit_greater_unit(u) ==
    CASE u = "Yoctometer" -> Some(Metric("Zeptometer"))
      [] u = "Zeptometer" -> Some(Metric("Attometer"))
      [] u = "Attometer" -> Some(Metric("Femtometer"))
      [] u = "Femtometer" -> Some(Metric("Picometer"))
      [] u = "Picometer" -> Some(Metric("Nanometer"))
      [] u = "Nanometer" -> Some(Metric("Micrometer"))
      [] u = "Micrometer" -> Some(Metric("Millimeter"))
      [] u = "Millimeter" -> Some(Metric("Centimeter"))
      [] u = "Centimeter" -> Some(Metric("Decimeter"))
      [] u = "Decimeter" -> Some(Metric("Meter"))
      [] u = "Meter" -> Some(Metric("Decameter"))
      [] u = "Decameter" -> Some(Metric("Hectometer"))
      [] u = "Hectometer" -> Some(Metric("Kilometer"))
      [] u = "Kilometer" -> Some(Metric("Megameter"))
      [] u = "Megameter" -> Some(Metric("Gigameter"))
      [] u = "Gigameter" -> Some(Metric("Terameter"))
      [] u = "Terameter" -> Some(Metric("Petameter"))
      [] u = "Petameter" -> Some(Metric("Exameter"))
      [] u = "Exameter" -> Some(Metric("Zettameter"))
      [] u = "Zettameter" -> Some(Metric("Yottameter"))
      [] u = "Yottameter" -> None

MetricUnit_to_string(u) ==
    CASE u = "Yoctometer" -> "ym"
      [] u = "Zeptometer" -> "zm"
      [] u = "Attometer" -> "am"
      [] u = "Femtometer" -> "fm"
      [] u = "Picometer" -> "pm"
      [] u = "Nanometer" -> "nm"
      [] u = "Micrometer" -> "µm"
      [] u = "Millimeter" -> "mm"
      [] u = "Centimeter" -> "cm"
      [] u = "Decimeter" -> "dm"
      [] u = "Meter" -> "m"
      [] u = "Decameter" -> "dam"
      [] u = "Hectometer" -> "hm"
      [] u = "Kilometer" -> "km"
      [] u = "Megameter" -> "Mm"
      [] u = "Gigameter" -> "Gm"
      [] u = "Terameter" -> "Tm"
      [] u = "Petameter" -> "Pm"
      [] u = "Exameter" -> "Em"
      [] u = "Zettameter" -> "Zm"
      [] u = "Yottameter" -> "Ym"

factor(u) ==
    CASE u.system = "Astronomic" -> AstronomicUnit_factor(u.unit)
      [] u.system = "Metric" -> MetricUnit_factor(u.unit)
      [] u.system = "Imperial" -> ImperialUnit_factor(u.unit)

smaller_unit(u) ==
    CASE u.system = "Astronomic" -> AstronomicUnit_smaller_unit(u.unit)
      [] u.system = "Imperial" -> ImperialUnit_smaller_unit(u.unit)
      [] u.system = "Metric" -> MetricUnit_smaller_unit(u.unit)

greater_unit(u) ==
    CASE u.system = "Astronomic" -> AstronomicUnit_greater_unit(u.unit)
      [] u.system = "Imperial" -> ImperialUnit_greater_unit(u.unit)
      [] u.system = "Metric" -> MetricUnit_greater_unit(u.unit)

to_string(u) ==
    CASE u.system = "Astronomic" -> AstronomicUnit_to_string(u.unit)
      [] u.system = "Imperial" -> ImperialUnit_to_string(u.unit)
      [] u.system = "Metric" -> MetricUnit_to_string(u.unit)

Ok(u) == [ok |-> u]

Err == [err |-> "unable to parse string to Unit-enum."]

from_str(s) ==
    CASE s = "au" -> Ok(Astronomic("AstronomicalUnit"))
      [] s = "ls" -> Ok(Astronomic("Lightsecond"))
      [] s = "lm" -> Ok(Astronomic("Lightminute"))
      [] s = "lh" -> Ok(Astronomic("Lighthour"))
      [] s = "ld" -> Ok(Astronomic("Lightday"))
      [] s = "ly" -> Ok(Astronomic("Lightyear"))
      [] s = "pc" -> Ok(Astronomic("Parsec"))
      [] s = "kpc" -> Ok(Astronomic("Kiloparsec"))
      [] s = "Mpc" -> Ok(Astronomic("Megaparsec"))
      [] s = "in" -> Ok(Imperial("Inch"))
      [] s = "ft" -> Ok(Imperial("Foot"))
      [] s = "yd" -> Ok(Imperial("Yard"))
      [] s = "mi" -> Ok(Imperial("Mile"))
      [] s = "ym" -> Ok(Metric("Yoctometer"))
      [] s = "zm" -> Ok(Metric("Zeptometer"))
      [] s = "am" -> Ok(Metric("Attometer"))
      [] s = "fm" -> Ok(Metric("Femtometer"))
      [] s = "pm" -> Ok(Metric("Picometer"))
      [] s = "nm" -> Ok(Metric("Nanometer"))
      [] s = "µm" -> Ok(Metric("Micrometer"))
      [] s = "mm" -> Ok(Metric("Millimeter"))
      [] s = "cm" -> Ok(Metric("Centimeter"))
      [] s = "dm" -> Ok(Metric("Decimeter"))
      [] s = "m" -> Ok(Metric("Meter"))
      [] s = "dam" -> Ok(Metric("Decameter"))
      [] s = "hm" -> Ok(Metric("Hectometer"))
      [] s = "km" -> Ok(Metric("Kilometer"))
      [] s = "Mm" -> Ok(Metric("Megameter"))
      [] s = "Gm" -> Ok(Metric("Gigameter"))
      [] s = "Tm" -> Ok(Metric("Terameter"))
      [] s = "Pm" -> Ok(Metric("Petameter"))
      [] s = "Em" -> Ok(Metric("Exameter"))
      [] s = "Zm" -> Ok(Metric("Zettameter"))
      [] s = "Ym" -> Ok(Metric("Yottameter"))
      [] OTHER -> Err


-----------------------------------------------------------------------------
(* Length *)

\* Length::new
new == [unit |-> Metric("Meter"), value |-> Zero, original_string |-> ""]

\* Length::new_value_unit
new_value_unit(value, unit) == [unit |-> unit, value |-> value, original_string |-> ""]

\* The execution record of one call of Length::to:
\*   ret     the Length returned;
\*   depth   the depth of the call tree (1: no nested call of to);
\*   scaled  the Length the final scaling of lines 272-273 is applied to
\*           (None when the call returned at line 224);
\*   fell    whether a `_ => {}` arm was taken.
RECURSIVE ToRun(_, _)

\* The arms of `match destination_unit.system()`: each gives the pivot Length
\* assigned to self_cloned, with the record of the nested call; via lists the
\* intermediate values the arm computes, in order, each as a Length in the
\* unit it is denominated in (source_in_m, m and meter in Meter, source_in_ly
\* in Lightyear, source_in_yd in Yard).
astronomic_from_metric(self_cloned) ==
    LET source_in_m == ToRun(self_cloned, Metric("Meter"))
        ly == Div(source_in_m.ret.value, LIGHTYEAR_TO_METER_FACTOR)
    IN  [len |-> new_value_unit(ly, Astronomic("Lightyear")),
         depth |-> source_in_m.depth, fell |-> source_in_m.fell,
         via |-> Append(source_in_m.via, source_in_m.ret)]

astronomic_from_imperial(self_cloned) ==
    LET source_in_m == ToRun(self_cloned, Metric("Meter"))
        ly == Div(source_in_m.ret.value, LIGHTYEAR_TO_METER_FACTOR)
    IN  [len |-> new_value_unit(ly, Astronomic("Lightyear")),
         depth |-> source_in_m.depth, fell |-> source_in_m.fell,
         via |-> Append(source_in_m.via, source_in_m.ret)]

imperial_from_astronomic(self_cloned) ==
    LET source_in_ly == ToRun(self_cloned, Astronomic("Lightyear"))
        m == Mul(source_in_ly.ret.value, LIGHTYEAR_TO_METER_FACTOR)
        yards == Div(m, YARD_TO_METER_FACTOR)
    IN  [len |-> new_value_unit(yards, Imperial("Yard")),
         depth |-> source_in_ly.depth, fell |-> source_in_ly.fell,
         via |-> source_in_ly.via \o <<source_in_ly.ret, new_value_unit(m, Metric("Meter"))>>]

\* Mutant: the yards are turned into feet, and the pivot Length is in Foot.
imperial_from_metric_in_foot(self_cloned) ==
    LET source_in_m == ToRun(self_cloned, Metric("Meter"))
        yards == Div(source_in_m.ret.value, YARD_TO_METER_FACTOR)
    IN  [len |-> new_value_unit(Mul(yards, Num(3)), Imperial("Foot")),
         depth |-> source_in_m.depth, fell |-> source_in_m.fell,
         via |-> Append(source_in_m.via, source_in_m.ret)]

imperial_from_metric(self_cloned) ==
    LET source_in_m == ToRun(self_cloned, Metric("Meter"))
        yards == Div(source_in_m.ret.value, YARD_TO_METER_FACTOR)
    IN  [len |-> new_value_unit(yards, Imperial("Yard")),
         depth |-> source_in_m.depth, fell |-> source_in_m.fell,
         via |-> Append(source_in_m.via, source_in_m.ret)]

metric_from_astronomic(self_cloned) ==
    LET source_in_ly == ToRun(self_cloned, Astronomic("Lightyear"))
        m == Mul(source_in_ly.ret.value, LIGHTYEAR_TO_METER_FACTOR)
    IN  [len |-> new_value_unit(m, Metric("Meter")),
         depth |-> source_in_ly.depth, fell |-> source_in_ly.fell,
         via |-> source_in_ly.via \o <<source_in_ly.ret, new_value_unit(m, Metric("Meter"))>>]

\* Mutant: the Imperial source is expressed in Foot, not Yard, before the
\* multiplication by the yard-to-meter factor.
metric_from_imperial_via_foot(self_cloned) ==
    LET source_in_yd == ToRun(self_cloned, Imperial("Foot"))
        meter == Mul(source_in_yd.ret.value, YARD_TO_METER_FACTOR)
    IN  [len |-> new_value_unit(meter, Metric("Meter")),
         depth |-> source_in_yd.depth, fell |-> source_in_yd.fell,
         via |-> Append(source_in_yd.via, source_in_yd.ret)]

metric_from_imperial(self_cloned) ==
    LET source_in_yd == ToRun(self_cloned, Imperial("Yard"))
        meter == Mul(source_in_yd.ret.value, YARD_TO_METER_FACTOR)
    IN  [len |-> new_value_unit(meter, Metric("Meter")),
         depth |-> source_in_yd.depth, fell |-> source_in_yd.fell,
         via |-> Append(source_in_yd.via, source_in_yd.ret)]

\* `_ => {}`: self_cloned is left as it is.
fall_through(self_cloned) == [len |-> self_cloned, depth |-> 0, fell |-> TRUE, via |-> <<>>]

\* Lines 227-270: the pivot step of a cross-system conversion.
pivot(self_cloned, destination_unit) ==
    CASE system(destination_unit) = "Astronomic" ->
            (CASE system(self_cloned.unit) = "Metric" -> astronomic_from_metric(self_cloned)
               [] system(self_cloned.unit) = "Imperial" -> astronomic_from_imperial(self_cloned)
               [] OTHER -> fall_through(self_cloned))
      [] system(destination_unit) = "Imperial" ->
            (CASE system(self_cloned.unit) = "Astronomic" -> imperial_from_astronomic(self_cloned)
               [] system(self_cloned.unit) = "Metric" -> imperial_from_metric(self_cloned)
               [] OTHER -> fall_through(self_cloned))
      [] system(destination_unit) = "Metric" ->
            (CASE system(self_cloned.unit) = "Astronomic" -> metric_from_astronomic(self_cloned)
               [] system(self_cloned.unit) = "Imperial" -> metric_from_imperial(self_cloned)
               [] OTHER -> fall_through(self_cloned))

\* Mutant: the factor is inverted (destination over source).
scale_inverted(self_cloned, destination_unit) ==
    LET f == Mul(factor(destination_unit), Div(One, factor(self_cloned.unit)))
    IN  new_value_unit(Mul(self_cloned.value, f), destination_unit)

\* Mutant: the scaled value keeps the unit it was scaled from.
scale_keeping_unit(self_cloned, destination_unit) ==
    LET f == Mul(factor(self_cloned.unit), Div(One, factor(destination_unit)))
    IN  new_value_unit(Mul(self_cloned.value, f), self_cloned.unit)

\* Lines 272-273: the within-system scaling.
scale(self_cloned, destination_unit) ==
    LET f == Mul(factor(self_cloned.unit), Div(One, factor(destination_unit)))
    IN  new_value_unit(Mul(self_cloned.value, f), destination_unit)

\* Mutant: the early return of lines 223-225 is missing.
ToRun_without_short_circuit(this, destination_unit) ==
    LET self_cloned == this
        p == IF system(self_cloned.unit) # system(destination_unit)
             THEN pivot(self_cloned, destination_unit)
             ELSE [len |-> self_cloned, depth |-> 0, fell |-> FALSE, via |-> <<>>]
    IN  [ret |-> scale(p.len, destination_unit), depth |-> 1 + p.depth,
         scaled |-> p.len, fell |-> p.fell, via |-> p.via]

\* Length::to
ToRun(this, destination_unit) ==
    LET self_cloned == this
    IN  IF self_cloned.unit = destination_unit
        THEN [ret |-> self_cloned, depth |-> 1, scaled |-> None, fell |-> FALSE,
              via |-> <<>>]
        ELSE LET p == IF system(self_cloned.unit) # system(destination_unit)
                      THEN pivot(self_cloned, destination_unit)
                      ELSE [len |-> self_cloned, depth |-> 0, fell |-> FALSE, via |-> <<>>]
             IN  [ret |-> scale(p.len, destination_unit), depth |-> 1 + p.depth,
                  scaled |-> p.len, fell |-> p.fell, via |-> p.via]

to(this, destination_unit) == ToRun(this, destination_unit).ret

\* Mutant: the receiver is replaced by the converted Length, `*self = new_length`.
to_by_ref_replacing(this, destination_unit) ==
    to(this, destination_unit)

\* Mutant: the unit is updated, the value is not.
to_by_ref_unit_only(this, destination_unit) ==
    LET new_length == to(this, destination_unit)
    IN  [this EXCEPT !.unit = new_length.unit]

\* Length::to_by_ref
to_by_ref(this, destination_unit) ==
    LET new_length == to(this, destination_unit)
    IN  [this EXCEPT !.value = new_length.value, !.unit = new_length.unit]

\* Mutant: the test of line 167 is `>= 0.0`.
normalize_step_nonnegative_test(st) ==
    LET normalized_length == st.len
    IN  IF Lt(normalized_length.value, One)
        THEN LET smaller == smaller_unit(normalized_length.unit)
             IN  IF smaller # None
                 THEN [len |-> to_by_ref(normalized_length, smaller.some), done |-> FALSE,
                       iterations |-> st.iterations + 1, decided |-> st.decided]
                 ELSE [len |-> normalized_length, done |-> TRUE,
                       iterations |-> st.iterations + 1, decided |-> st.decided]
        ELSE LET greater == greater_unit(normalized_length.unit)
             IN  IF greater # None
                 THEN LET test_normalized == to(normalized_length, greater.some)
                      IN  [len |-> IF Ge(test_normalized.value, Zero)
                                   THEN test_normalized ELSE normalized_length,
                           done |-> ~Ge(test_normalized.value, Zero),
                           iterations |-> st.iterations + 1, decided |-> st.decided]
                 ELSE [len |-> normalized_length, done |-> TRUE,
                       iterations |-> st.iterations + 1, decided |-> st.decided]

\* Mutant: at a ladder end the loop is not ended (done stays false).
normalize_step_no_stop_at_end(st) ==
    LET normalized_length == st.len
    IN  IF Lt(normalized_length.value, One)
        THEN LET smaller == smaller_unit(normalized_length.unit)
             IN  IF smaller # None
                 THEN [len |-> to_by_ref(normalized_length, smaller.some), done |-> FALSE,
                       iterations |-> st.iterations + 1, decided |-> st.decided]
                 ELSE [len |-> normalized_length, done |-> FALSE,
                       iterations |-> st.iterations + 1, decided |-> st.decided]
        ELSE LET greater == greater_unit(normalized_length.unit)
             IN  IF greater # None
                 THEN LET test_normalized == to(normalized_length, greater.some)
                      IN  [len |-> IF Ge(test_normalized.value, One)
                                   THEN test_normalized ELSE normalized_length,
                           done |-> ~Ge(test_normalized.value, One),
                           iterations |-> st.iterations + 1, decided |-> st.decided]
                 ELSE [len |-> normalized_length, done |-> FALSE,
                       iterations |-> st.iterations + 1, decided |-> st.decided]

\* Mutant: the first test compares the magnitude of the value with 1.0.
normalize_step_by_magnitude(st) ==
    LET normalized_length == st.len
        magnitude == IF normalized_length.value.sgn < 0
                     THEN Neg(normalized_length.value) ELSE normalized_length.value
    IN  IF Lt(magnitude, One)
        THEN LET smaller == smaller_unit(normalized_length.unit)
             IN  IF smaller # None
                 THEN [len |-> to_by_ref(normalized_length, smaller.some), done |-> FALSE,
                       iterations |-> st.iterations + 1, decided |-> st.decided]
                 ELSE [len |-> normalized_length, done |-> TRUE,
                       iterations |-> st.iterations + 1, decided |-> st.decided]
        ELSE LET greater == greater_unit(normalized_length.unit)
             IN  IF greater # None
                 THEN LET test_normalized == to(normalized_length, greater.some)
                      IN  [len |-> IF Ge(test_normalized.value, One)
                                   THEN test_normalized ELSE normalized_length,
                           done |-> ~Ge(test_normalized.value, One),
                           iterations |-> st.iterations + 1, decided |-> st.decided]
                 ELSE [len |-> normalized_length, done |-> TRUE,
                       iterations |-> st.iterations + 1, decided |-> st.decided]

\* Mutant: the step up is committed without the test `>= 1.0` of line 167, and
\* ends the loop.
normalize_step_always_up(st) ==
    LET normalized_length == st.len
    IN  IF Lt(normalized_length.value, One)
        THEN LET smaller == smaller_unit(normalized_length.unit)
             IN  IF smaller # None
                 THEN [len |-> to_by_ref(normalized_length, smaller.some), done |-> FALSE,
                       iterations |-> st.iterations + 1, decided |-> st.decided]
                 ELSE [len |-> normalized_length, done |-> TRUE,
                       iterations |-> st.iterations + 1, decided |-> st.decided]
        ELSE LET greater == greater_unit(normalized_length.unit)
             IN  IF greater # None
                 THEN [len |-> to(normalized_length, greater.some), done |-> TRUE,
                       iterations |-> st.iterations + 1, decided |-> st.decided]
                 ELSE [len |-> normalized_length, done |-> TRUE,
                       iterations |-> st.iterations + 1, decided |-> st.decided]

\* One pass of the loop body of Length::normalize (lines 153-177) on the loop
\* state st = [len, done, iterations, decided]; decided records that every
\* comparison with 1.0 made so far was settled by Cmp.
normalize_step(st) ==
    LET normalized_length == st.len
    IN  IF Lt(normalized_length.value, One)
        THEN LET smaller == smaller_unit(normalized_length.unit)
             IN  IF smaller # None
                 THEN [len |-> to_by_ref(normalized_length, smaller.some), done |-> FALSE,
                       iterations |-> st.iterations + 1,
                       decided |-> st.decided /\ Cmp(normalized_length.value, One) # "undecided"]
                 ELSE [len |-> normalized_length, done |-> TRUE,
                       iterations |-> st.iterations + 1,
                       decided |-> st.decided /\ Cmp(normalized_length.value, One) # "undecided"]
        ELSE LET greater == greater_unit(normalized_length.unit)
             IN  IF greater # None
                 THEN LET test_normalized == to(normalized_length, greater.some)
                      IN  [len |-> IF Ge(test_normalized.value, One)
                                   THEN test_normalized ELSE normalized_length,
                           done |-> ~Ge(test_normalized.value, One),
                           iterations |-> st.iterations + 1,
                           decided |-> /\ st.decided
                                       /\ Cmp(normalized_length.value, One) # "undecided"
                                       /\ Cmp(test_normalized.value, One) # "undecided"]
                 ELSE [len |-> normalized_length, done |-> TRUE,
                       iterations |-> st.iterations + 1,
                       decided |-> st.decided /\ Cmp(normalized_length.value, One) # "undecided"]

\* The loop `while !done && iterations < 10`.
RECURSIVE normalize_loop(_)
\* Mutant: the loop has no iteration count, `while !done`.
normalize_loop_uncapped(st) ==
    IF ~st.done THEN normalize_loop(normalize_step(st)) ELSE st

normalize_loop(st) ==
    IF ~st.done /\ st.iterations < 10 THEN normalize_loop(normalize_step(st)) ELSE st

\* The execution record of Length::normalize: the final loop state.
NormalizeRun(this) ==
    normalize_loop([len |-> this, done |-> FALSE, iterations |-> 0, decided |-> TRUE])

\* Length::normalize
normalize(this) == NormalizeRun(this).len

\* Length::normalize_by_ref
normalize_by_ref(this) ==
    LET normalized == normalize(this)
    IN  [this EXCEPT !.value = normalized.value, !.unit = normalized.unit]


-----------------------------------------------------------------------------
(* Length::new_string.  A string is the sequence of its characters. *)

\* The characters that \s of the pattern matches, among those of the inputs.
Whitespace == {" ", "\t", "\n"}

\* [0-9]
Digits == {"0", "1", "2", "3", "4", "5", "6", "7", "8", "9"}

\* [a-zA-Z]
Letters ==
    {"a", "b", "c", "d", "e", "f", "g", "h", "i", "j", "k", "l", "m", "n", "o", "p",
     "q", "r", "s", "t", "u", "v", "w", "x", "y", "z",
     "A", "B", "C", "D", "E", "F", "G", "H", "I", "J", "K", "L", "M", "N", "O", "P",
     "Q", "R", "S", "T", "U", "V", "W", "X", "Y", "Z"}

\* The position after the longest run of characters of class that starts at i.
RECURSIVE Span(_, _, _)
Span(s, i, class) ==
    IF i <= Len(s) /\ s[i] \in class THEN Span(s, i + 1, class) ELSE i

Min(a, b) == IF a < b THEN a ELSE b

\* The String of a sequence of characters.
RECURSIVE Join(_)
Join(s) == IF s = <<>> THEN "" ELSE Head(s) \o Join(Tail(s))

\* Mutant: the pattern's fraction is (\.[0-9]*)?, so that "5." is a number.
captures_empty_fraction(s) ==
    LET number == Span(s, 1, Whitespace)
        point == Span(s, number, Digits)
        fraction == IF point <= Len(s) /\ s[point] = "."
                    THEN Span(s, point + 1, Digits) ELSE point
        symbol == Span(s, fraction, Whitespace)
        rest == Min(Span(s, symbol, Letters), symbol + 3)
        stop == Span(s, rest, Whitespace)
    IN  IF point > number /\ rest > symbol /\ stop = Len(s) + 1
        THEN Some([cap0 |-> SubSeq(s, 1, stop - 1),
                   cap1 |-> SubSeq(s, number, fraction - 1),
                   cap3 |-> SubSeq(s, symbol, rest - 1)])
        ELSE None

\* RE_LENGTH.captures(s) for ^\s*([0-9]+(\.[0-9]+)?)\s*([a-zA-Z]{1,3})\s*$ :
\* the pieces of the pattern match characters of disjoint classes, so the match
\* is found in one greedy pass from the left.
captures(s) ==
    LET number == Span(s, 1, Whitespace)
        point == Span(s, number, Digits)
        fraction == IF /\ point <= Len(s)
                       /\ s[point] = "."
                       /\ Span(s, point + 1, Digits) > point + 1
                    THEN Span(s, point + 1, Digits) ELSE point
        symbol == Span(s, fraction, Whitespace)
        rest == Min(Span(s, symbol, Letters), symbol + 3)
        stop == Span(s, rest, Whitespace)
    IN  IF point > number /\ rest > symbol /\ stop = Len(s) + 1
        THEN Some([cap0 |-> SubSeq(s, 1, stop - 1),
                   cap1 |-> SubSeq(s, number, fraction - 1),
                   cap3 |-> SubSeq(s, symbol, rest - 1)])
        ELSE None

DigitValue(c) ==
    CASE c = "0" -> 0 [] c = "1" -> 1 [] c = "2" -> 2 [] c = "3" -> 3 [] c = "4" -> 4
      [] c = "5" -> 5 [] c = "6" -> 6 [] c = "7" -> 7 [] c = "8" -> 8 [] c = "9" -> 9

RECURSIVE DigitsValue(_)
DigitsValue(d) ==
    IF d = <<>> THEN 0
    ELSE 10 * DigitsValue(SubSeq(d, 1, Len(d) - 1)) + DigitValue(d[Len(d)])

\* str::parse::<f64> on capture 1, a numeral of the shape digits or
\* digits.digits, on which it never fails.
parse_f64(numeral) ==
    LET point == Span(numeral, 1, Digits)
        whole == SubSeq(numeral, 1, point - 1)
        frac == SubSeq(numeral, point + 1, Len(numeral))
    IN  Dec(DigitsValue(whole \o frac), Len(frac))

\* Mutant: the original string is the number and the symbol without the
\* whitespace around them.
new_string_trimmed(string) ==
    LET caps == captures(string)
    IN  IF caps = None THEN None
        ELSE LET cap == caps.some
                 original_string == Join(cap.cap1) \o Join(cap.cap3)
                 value == parse_f64(cap.cap1)
                 unit == from_str(Join(cap.cap3))
             IN  IF unit = Err THEN None
                 ELSE Some([unit |-> unit.ok, value |-> value,
                            original_string |-> original_string])

\* Length::new_string
new_string(string) ==
    LET caps == captures(string)
    IN  IF caps = None THEN None
        ELSE LET cap == caps.some
                 original_string == Join(cap.cap0)
                 value == parse_f64(cap.cap1)
                 unit == from_str(Join(cap.cap3))
             IN  IF unit = Err THEN None
                 ELSE Some([unit |-> unit.ok, value |-> value,
                            original_string |-> original_string])

\* Length::get_original_string
get_original_string(this) == this.original_string

-----------------------------------------------------------------------------
(* The arithmetic of Length *)

\* Mutant: the sum is formed in the argument's unit, not in the receiver's.
add_in_argument_unit(this, length) ==
    LET self_with_argument_unit == to(this, length.unit)
    IN  [new EXCEPT !.value = Add(self_with_argument_unit.value, length.value),
                    !.unit = length.unit]

\* Length::add; `..Default::default()` takes the remaining field from
\* Length::new().
add(this, length) ==
    LET length_with_source_unit == to(length, this.unit)
    IN  [new EXCEPT !.value = Add(this.value, length_with_source_unit.value),
                    !.unit = this.unit]

\* Mutant: `-=` in the place of `+=`.
add_by_ref_subtracting(this, length) ==
    LET length_with_source_unit == to(length, this.unit)
    IN  [this EXCEPT !.value = Sub(@, length_with_source_unit.value)]

\* Length::add_by_ref
add_by_ref(this, length) ==
    LET length_with_source_unit == to(length, this.unit)
    IN  [this EXCEPT !.value = Add(@, length_with_source_unit.value)]

\* Length::subtract
subtract(this, length) ==
    LET length_with_source_unit == to(length, this.unit)
    IN  [new EXCEPT !.value = Sub(this.value, length_with_source_unit.value),
                    !.unit = this.unit]

\* Length::subtract_by_ref
subtract_by_ref(this, length) ==
    LET length_with_source_unit == to(length, this.unit)
    IN  [this EXCEPT !.value = Sub(@, length_with_source_unit.value)]

\* Length::multiply_by
multiply_by(this, real_factor) ==
    [new EXCEPT !.value = Mul(this.value, real_factor), !.unit = this.unit]

\* Length::multiply_by_ref
multiply_by_ref(this, real_factor) ==
    [this EXCEPT !.value = Mul(@, real_factor)]

\* Length::divide_by, for a factor other than 0.
divide_by(this, real_factor) ==
    [new EXCEPT !.value = Div(this.value, real_factor), !.unit = this.unit]

\* Length::divide_by_ref, for a factor other than 0.
divide_by_ref(this, real_factor) ==
    [this EXCEPT !.value = Div(@, real_factor)]

-----------------------------------------------------------------------------
(* The state machine: a calling program that exercises one Length (client   *)
(* "length"), the arithmetic of a parsed Length ("arith"), sequences of      *)
(* in-place operations on a Length ("inplace"), the neighbour links of the  *)
(* taxonomy ("ladder"), the symbol mapping ("symbol"), or the parser        *)
(* Length::new_string ("parser").                                           *)

\* How many in-place operations the receiver undergoes at most.
MaxOps == 1

\* How many in-place operations in a row the receiver undergoes at most when
\* the calling program does nothing else with it (client "inplace").
MaxSeq == 2

\* How many units a ladder walk visits at most (the longest ladder has 21).
MaxWalk == 23

\* How long a typed symbol string is at most.
MaxSymLen == 3

\* How long a typed input string of new_string is at most.
MaxInputLen == 4

\* The values the receiver is constructed with: 0, 1, 50, 5000, 1e30, 0.5, -2.
Values == {Num(0), Num(1), Num(50), Num(5000), Pow10(30), Dec(5, 1), Num(0 - 2)}

\* The destination units the in-place conversion is called with.
ByRefUnits == {Metric("Kilometer"), Imperial("Inch"), Astronomic("Lightyear")}

\* The input strings the receiver of the arithmetic is parsed from.
ArithInputs ==
    {<<"5", "k", "m">>, <<"2", ".", "5", " ", "m", "i">>, <<" ", "5", "0", " ", "l", "y", " ">>,
     <<"0", ".", "5", " ", "k", "m">>}

\* The units of the Lengths that are added to and subtracted from the receiver.
ArgUnits == {Metric("Meter"), Imperial("Mile")}

\* Their lengths as multiples of the receiver's length: 0.4 and 1.  The sum
\* and the difference are then numbers of the exact arithmetic.
Ratios == {Dec(4, 1), One}

\* The Lengths that are added to and subtracted from the receiver this.
ArgLengths(this) ==
    {to(new_value_unit(Mul(this.value, r), this.unit), u) : r \in Ratios, u \in ArgUnits}

\* The factors the receiver is multiplied with and divided by: 10 and 2.5.
Factors == {Num(10), Dec(25, 1)}

\* The characters symbol strings are typed from.
Chars == {"m", "M", "k", "d", "a", "µ"}

\* The characters input strings of new_string are typed from.
InputChars == {" ", "5", ".", "k", "m", "µ"}

\* Input strings of new_string that are handed over whole: those of the tests
\* and the documentation, and strings with a sign, an exponent, a missing or
\* unknown or overlong symbol, other whitespace, other letter case.
PresetInputs ==
    {<<"1", "m">>, <<"2", "m">>, <<"5", " ", "k", "m">>,
     <<"2", "3", ".", "5", " ", "k", "m">>, <<"2", ".", "3", " ", "l", "y">>,
     <<"5", " ", "x", "y", "z">>, <<"-", "5", "m">>, <<"+", "5", "m">>,
     <<"5", "e", "3", "m">>, <<"5", "e", "3", " ", "m">>, <<"5", ",", "5", "m">>,
     <<"5", " ", "d", "a", "m">>, <<"5", " ", "d", "a", "m", "s">>,
     <<"5", " ", "K", "m">>, <<"5", " ", "M", "m">>, <<"5", " ", "M", "M">>,
     <<"\t", "0", "0", "7", ".", "5", "0", "\t", "m", "i", "\n">>,
     <<" ", " ", "5", " ", " ", "k", "m", " ", " ">>,
     <<"5", " ", "k", "m", " ", "5", " ", "k", "m">>}

\* How many in-place operations the calling program makes at most.
OpsBound == IF client = "inplace" THEN MaxSeq ELSE MaxOps

Last(path) == path[Len(path)]

Idle == [op |-> "none", arg |-> None]

NoWalk == [dir |-> "none", path |-> <<>>]

LengthIdle == /\ self = new /\ ops = 0 /\ call = Idle /\ ret = None /\ run = None

LadderIdle == walk = NoWalk

SymbolIdle == /\ text = "" /\ origin = None /\ parsed = None

ParserIdle == /\ input = <<>> /\ made = None

\* The receiver after Length::new() or Length::new_value_unit(value, unit).
Constructed ==
    \/ /\ self = new
       /\ call = [op |-> "new", arg |-> None]
    \/ \E value \in Values, unit \in Unit :
          /\ self = new_value_unit(value, unit)
          /\ call = [op |-> "new_value_unit", arg |-> unit]

\* The receiver after Length::new_string(string).
Parsed ==
    \E string \in ArithInputs :
        /\ new_string(string) # None
        /\ self = new_string(string).some
        /\ call = [op |-> "new_string", arg |-> string]

Init ==
    \/ /\ client = "length"
       /\ Constructed
       /\ ops = 0 /\ ret = None /\ run = None
       /\ LadderIdle /\ SymbolIdle /\ ParserIdle
    \/ /\ client = "arith"
       /\ Parsed
       /\ ops = 0 /\ ret = None /\ run = None
       /\ LadderIdle /\ SymbolIdle /\ ParserIdle
    \/ /\ client = "inplace"
       /\ \/ Parsed
          \/ self = new /\ call = [op |-> "new", arg |-> None]
       /\ ops = 0 /\ ret = None /\ run = None
       /\ LadderIdle /\ SymbolIdle /\ ParserIdle
    \/ /\ client = "ladder"
       /\ \E u \in Unit, d \in {"greater", "smaller"} : walk = [dir |-> d, path |-> <<u>>]
       /\ LengthIdle /\ SymbolIdle /\ ParserIdle
    \/ /\ client = "symbol"
       /\ LengthIdle /\ LadderIdle /\ SymbolIdle /\ ParserIdle
    \/ /\ client = "parser"
       /\ input \in {<<>>} \cup PresetInputs
       /\ made = None
       /\ LengthIdle /\ LadderIdle /\ SymbolIdle

\* Mutant: the conversion is made on the receiver itself, not on a clone.
To_on_receiver ==
    /\ client \in {"length", "arith"}
    /\ ret = None
    /\ \E destination_unit \in Unit :
          /\ call' = [op |-> "to", arg |-> destination_unit]
          /\ run' = ToRun(self, destination_unit)
    /\ ret' = run'.ret
    /\ self' = ret'
    /\ UNCHANGED <<client, ops, walk, text, origin, parsed, input, made>>

\* self.to(destination_unit).  The calling program holds one returned Length at
\* a time (ret): it calls a value-returning operation when it holds none, and
\* drops the one it holds at its next in-place call.
To ==
    /\ client \in {"length", "arith"}
    /\ ret = None
    /\ \E destination_unit \in Unit :
          /\ call' = [op |-> "to", arg |-> destination_unit]
          /\ run' = ToRun(self, destination_unit)
    /\ ret' = run'.ret
    /\ UNCHANGED <<client, self, ops, walk, text, origin, parsed, input, made>>

\* self.to_by_ref(destination_unit)
ToByRef ==
    /\ client \in {"length", "arith", "inplace"}
    /\ ops < OpsBound
    /\ \E destination_unit \in ByRefUnits :
          /\ call' = [op |-> "to_by_ref", arg |-> destination_unit]
          /\ self' = to_by_ref(self, destination_unit)
    /\ ops' = ops + 1
    /\ ret' = None
    /\ run' = None
    /\ UNCHANGED <<client, walk, text, origin, parsed, input, made>>

\* self.normalize()
Normalize ==
    /\ client \in {"length", "arith"}
    /\ ret = None
    /\ call' = [op |-> "normalize", arg |-> None]
    /\ run' = NormalizeRun(self)
    /\ ret' = run'.len
    /\ UNCHANGED <<client, self, ops, walk, text, origin, parsed, input, made>>

\* self.normalize_by_ref()
NormalizeByRef ==
    /\ client \in {"length", "arith", "inplace"}
    /\ ops < OpsBound
    /\ call' = [op |-> "normalize_by_ref", arg |-> None]
    /\ self' = normalize_by_ref(self)
    /\ ops' = ops + 1
    /\ ret' = None
    /\ run' = None
    /\ UNCHANGED <<client, walk, text, origin, parsed, input, made>>

\* self.get_original_string(); the returned String is held as [string |-> it].
GetOriginalString ==
    /\ client \in {"length", "arith", "inplace"}
    /\ ret = None
    /\ call' = [op |-> "get_original_string", arg |-> None]
    /\ ret' = [string |-> get_original_string(self)]
    /\ run' = None
    /\ UNCHANGED <<client, self, ops, walk, text, origin, parsed, input, made>>

\* self.add(length)
AddLength ==
    /\ client = "arith"
    /\ ret = None
    /\ \E length \in ArgLengths(self) :
          /\ call' = [op |-> "add", arg |-> length]
          /\ ret' = add(self, length)
    /\ run' = None
    /\ UNCHANGED <<client, self, ops, walk, text, origin, parsed, input, made>>

\* self.add_by_ref(length)
AddByRef ==
    /\ client \in {"arith", "inplace"}
    /\ ops < OpsBound
    /\ \E length \in ArgLengths(self) :
          /\ call' = [op |-> "add_by_ref", arg |-> length]
          /\ self' = add_by_ref(self, length)
    /\ ops' = ops + 1
    /\ ret' = None
    /\ run' = None
    /\ UNCHANGED <<client, walk, text, origin, parsed, input, made>>

\* self.subtract(length)
Subtract ==
    /\ client = "arith"
    /\ ret = None
    /\ \E length \in ArgLengths(self) :
          /\ call' = [op |-> "subtract", arg |-> length]
          /\ ret' = subtract(self, length)
    /\ run' = None
    /\ UNCHANGED <<client, self, ops, walk, text, origin, parsed, input, made>>

\* self.subtract_by_ref(length)
SubtractByRef ==
    /\ client \in {"arith", "inplace"}
    /\ ops < OpsBound
    /\ \E length \in ArgLengths(self) :
          /\ call' = [op |-> "subtract_by_ref", arg |-> length]
          /\ self' = subtract_by_ref(self, length)
    /\ ops' = ops + 1
    /\ ret' = None
    /\ run' = None
    /\ UNCHANGED <<client, walk, text, origin, parsed, input, made>>

\* self.multiply_by(factor)
MultiplyBy ==
    /\ client = "arith"
    /\ ret = None
    /\ \E real_factor \in Factors :
          /\ call' = [op |-> "multiply_by", arg |-> real_factor]
          /\ ret' = multiply_by(self, real_factor)
    /\ run' = None
    /\ UNCHANGED <<client, self, ops, walk, text, origin, parsed, input, made>>

\* self.multiply_by_ref(factor)
MultiplyByRef ==
    /\ client \in {"arith", "inplace"}
    /\ ops < OpsBound
    /\ \E real_factor \in Factors :
          /\ call' = [op |-> "multiply_by_ref", arg |-> real_factor]
          /\ self' = multiply_by_ref(self, real_factor)
    /\ ops' = ops + 1
    /\ ret' = None
    /\ run' = None
    /\ UNCHANGED <<client, walk, text, origin, parsed, input, made>>

\* self.divide_by(factor)
DivideBy ==
    /\ client = "arith"
    /\ ret = None
    /\ \E real_factor \in Factors :
          /\ call' = [op |-> "divide_by", arg |-> real_factor]
          /\ ret' = divide_by(self, real_factor)
    /\ run' = None
    /\ UNCHANGED <<client, self, ops, walk, text, origin, parsed, input, made>>

\* self.divide_by_ref(factor)
DivideByRef ==
    /\ client \in {"arith", "inplace"}
    /\ ops < OpsBound
    /\ \E real_factor \in Factors :
          /\ call' = [op |-> "divide_by_ref", arg |-> real_factor]
          /\ self' = divide_by_ref(self, real_factor)
    /\ ops' = ops + 1
    /\ ret' = None
    /\ run' = None
    /\ UNCHANGED <<client, walk, text, origin, parsed, input, made>>

\* The calling program changes the Length that the last operation returned
\* in place: ret.multiply_by_ref(factor).
ReturnedMultiplyByRef ==
    /\ client = "arith"
    /\ call.op \in {"to", "normalize", "add", "subtract", "multiply_by", "divide_by"}
    /\ \E real_factor \in {Num(10)} :
          /\ call' = [op |-> "returned.multiply_by_ref", arg |-> real_factor]
          /\ ret' = multiply_by_ref(ret, real_factor)
    /\ run' = None
    /\ UNCHANGED <<client, self, ops, walk, text, origin, parsed, input, made>>

\* unit.greater_unit() on the last unit of the walk
GreaterUnit ==
    /\ client = "ladder"
    /\ walk.dir = "greater"
    /\ Len(walk.path) < MaxWalk
    /\ greater_unit(Last(walk.path)) # None
    /\ walk' = [walk EXCEPT !.path = Append(@, greater_unit(Last(walk.path)).some)]
    /\ UNCHANGED <<client, self, ops, call, ret, run, text, origin, parsed, input, made>>

\* unit.smaller_unit() on the last unit of the walk
SmallerUnit ==
    /\ client = "ladder"
    /\ walk.dir = "smaller"
    /\ Len(walk.path) < MaxWalk
    /\ smaller_unit(Last(walk.path)) # None
    /\ walk' = [walk EXCEPT !.path = Append(@, smaller_unit(Last(walk.path)).some)]
    /\ UNCHANGED <<client, self, ops, call, ret, run, text, origin, parsed, input, made>>

\* The calling program types one more character of a symbol string.
TypeChar ==
    /\ client = "symbol"
    /\ origin = None
    /\ parsed = None
    /\ Len(text) < MaxSymLen
    /\ \E c \in Chars : text' = text \o c
    /\ UNCHANGED <<client, self, ops, call, ret, run, walk, origin, parsed, input, made>>

\* unit.to_string()
UnitToString ==
    /\ client = "symbol"
    /\ text = ""
    /\ parsed = None
    /\ \E u \in Unit :
          /\ text' = to_string(u)
          /\ origin' = u
    /\ UNCHANGED <<client, self, ops, call, ret, run, walk, parsed, input, made>>

\* text.parse::<Unit>()
UnitFromStr ==
    /\ client = "symbol"
    /\ parsed = None
    /\ parsed' = from_str(text)
    /\ UNCHANGED <<client, self, ops, call, ret, run, walk, text, origin, input, made>>

\* The calling program types one more character of an input string.
TypeInput ==
    /\ client = "parser"
    /\ made = None
    /\ Len(input) < MaxInputLen
    /\ \E c \in InputChars : input' = Append(input, c)
    /\ UNCHANGED <<client, self, ops, call, ret, run, walk, text, origin, parsed, made>>

\* Length::new_string(input)
NewString ==
    /\ client = "parser"
    /\ made = None
    /\ made' = [result |-> new_string(input)]
    /\ UNCHANGED <<client, self, ops, call, ret, run, walk, text, origin, parsed, input>>

Next ==
    \/ To
    \/ ToByRef
    \/ Normalize
    \/ NormalizeByRef
    \/ GetOriginalString
    \/ AddLength
    \/ AddByRef
    \/ Subtract
    \/ SubtractByRef
    \/ MultiplyBy
    \/ MultiplyByRef
    \/ DivideBy
    \/ DivideByRef
    \/ ReturnedMultiplyByRef
    \/ GreaterUnit
    \/ SmallerUnit
    \/ TypeChar
    \/ UnitToString
    \/ UnitFromStr
    \/ TypeInput
    \/ NewString

Spec == Init /\ [][Next]_vars


-----------------------------------------------------------------------------
(* Length::to *)

\* The length of one unit u in meters, as the taxonomy defines it.
MetersPer(u) ==
    CASE system(u) = "Metric" -> factor(u)
      [] system(u) = "Imperial" -> Mul(Div(factor(u), Num(36)), Dec(9144, 4))
      [] system(u) = "Astronomic" -> Mul(factor(u), Mul(Num(299792458), Num(31557600)))

IsTo(value, from, dest) ==
    /\ call.op = "to"
    /\ self.value = value
    /\ self.unit = from
    /\ call.arg = dest

\* C1: for a source unit and a destination unit of different systems,
\* Length::to returns, in the destination unit, value * M(source) / M(destination),
\* M(u) being the unit's length in meters; in particular 1 Mile is 1.609344
\* Kilometer, 1 Inch is 2.54 Centimeter, 1 AstronomicalUnit is 149597870700
\* Meter and 1 Lightyear is 9460730472580.8 Kilometer.
C1_CrossSystemValue ==
    /\ (call.op = "to" /\ system(self.unit) # system(call.arg)) =>
          /\ ret.unit = call.arg
          /\ ret.value = Div(Mul(self.value, MetersPer(self.unit)), MetersPer(call.arg))
    /\ IsTo(Num(1), Imperial("Mile"), Metric("Kilometer")) => ret.value = Dec(1609344, 6)
    /\ IsTo(Num(1), Imperial("Inch"), Metric("Centimeter")) => ret.value = Dec(254, 2)
    /\ IsTo(Num(1), Astronomic("AstronomicalUnit"), Metric("Meter")) =>
          ret.value = Mul(Num(1495978707), Num(100))
    /\ IsTo(Num(1), Astronomic("Lightyear"), Metric("Kilometer")) =>
          ret.value = Mul(Num(299792458), Dec(315576, 1))

C1_Witness ==
    /\ IsTo(Num(1), Imperial("Mile"), Metric("Kilometer"))
    /\ ret = new_value_unit(Dec(1609344, 6), Metric("Kilometer"))

\* C2: for two distinct units of the same system, Length::to returns the
\* destination unit with value * factor(source) / factor(destination); e.g.
\* 1 Mile is 5280 Foot, 1 Yard is 3 Foot, 1 Kilometer is 1000000 Millimeter.
C2_SameSystemValue ==
    /\ (/\ call.op = "to"
        /\ system(self.unit) = system(call.arg)
        /\ self.unit # call.arg) =>
          /\ ret.unit = call.arg
          /\ ret.value = Div(Mul(self.value, factor(self.unit)), factor(call.arg))
    /\ IsTo(Num(1), Imperial("Mile"), Imperial("Foot")) => ret.value = Num(5280)
    /\ IsTo(Num(1), Imperial("Yard"), Imperial("Foot")) => ret.value = Num(3)
    /\ IsTo(Num(1), Metric("Kilometer"), Metric("Millimeter")) => ret.value = Num(1000000)

C2_Witness ==
    /\ IsTo(Num(1), Imperial("Mile"), Imperial("Foot"))
    /\ ret = new_value_unit(Num(5280), Imperial("Foot"))

\* C3: converting a Length to its own unit returns its value and unit unchanged,
\* through the identity short-circuit: no scaling is applied.
C3_IdentityShortCircuit ==
    (call.op = "to" /\ call.arg = self.unit) =>
        /\ ret.value = self.value
        /\ ret.unit = self.unit
        /\ run.scaled = None

C3_Witness ==
    /\ call.op = "to"
    /\ call.arg = self.unit
    /\ self.value = Dec(5, 1)
    /\ ret.value = Dec(5, 1)
    /\ run.scaled = None

\* C4: for every (source unit, destination unit) pair Length::to returns a Length
\* whose unit is the destination unit, and its nested calls of to are at most
\* three deep.
C4_TotalAndShallow ==
    call.op = "to" =>
        /\ ret.unit = call.arg
        /\ ret.unit \in Unit
        /\ ret.value.sgn \in {0 - 1, 0, 1}
        /\ run.depth \in 1..3

C4_Witness ==
    /\ call.op = "to"
    /\ system(self.unit) = "Imperial"
    /\ system(call.arg) = "Astronomic"
    /\ ret.unit = call.arg
    /\ run.depth = 3


-----------------------------------------------------------------------------
(* The ladders *)

\* The walk has followed greater_unit (smaller_unit) from position i to i + 1.
Steps == 1..(Len(walk.path) - 1)

Up == walk.dir = "greater"

Down == walk.dir = "smaller"

\* The walk started at a unit without smaller_unit and cannot go further up.
FullLadder ==
    /\ Up
    /\ smaller_unit(walk.path[1]) = None
    /\ greater_unit(Last(walk.path)) = None

UnitsOf(sys) == {u \in Unit : system(u) = sys}

Visited == {walk.path[i] : i \in 1..Len(walk.path)}

\* C5: each ladder is ordered by magnitude: the greater_unit of a unit has a
\* greater factor, the smaller_unit of a unit has a smaller factor.
C5_LadderOrdered ==
    \A i \in Steps :
        /\ Up => Gt(factor(walk.path[i + 1]), factor(walk.path[i]))
        /\ Down => Lt(factor(walk.path[i + 1]), factor(walk.path[i]))

\* C6: smaller_unit is none exactly for Yoctometer, Inch and AstronomicalUnit,
\* greater_unit is none exactly for Yottameter, Mile and Megaparsec; no unit
\* lacks both neighbours.
C6_LadderEnds ==
    client = "ladder" =>
        LET u == Last(walk.path)
        IN  /\ smaller_unit(u) = None <=>
                 u \in {Metric("Yoctometer"), Imperial("Inch"), Astronomic("AstronomicalUnit")}
            /\ greater_unit(u) = None <=>
                 u \in {Metric("Yottameter"), Imperial("Mile"), Astronomic("Megaparsec")}
            /\ smaller_unit(u) # None => smaller_unit(u).some \in Unit
            /\ greater_unit(u) # None => greater_unit(u).some \in Unit
            /\ ~(smaller_unit(u) = None /\ greater_unit(u) = None)

C6_Witness ==
    /\ Up
    /\ Len(walk.path) > 1
    /\ Last(walk.path) = Astronomic("Megaparsec")
    /\ greater_unit(Last(walk.path)) = None
    /\ smaller_unit(Last(walk.path)) # None

\* C7: smaller_unit and greater_unit are mutually inverse and stay inside one
\* system, and following greater_unit from a system's smallest unit visits
\* every unit of the system exactly once (21 Metric, 4 Imperial, 9 Astronomic).
C7_LadderInverse ==
    /\ \A i \in Steps :
          /\ system(walk.path[i + 1]) = system(walk.path[i])
          /\ Up => smaller_unit(walk.path[i + 1]) = Some(walk.path[i])
          /\ Down => greater_unit(walk.path[i + 1]) = Some(walk.path[i])
    /\ FullLadder =>
          /\ Visited = UnitsOf(system(walk.path[1]))
          /\ Cardinality(Visited) = Len(walk.path)
          /\ Len(walk.path) =
                (CASE system(walk.path[1]) = "Metric" -> 21
                   [] system(walk.path[1]) = "Imperial" -> 4
                   [] system(walk.path[1]) = "Astronomic" -> 9)

C7_Witness ==
    /\ FullLadder
    /\ walk.path[1] = Metric("Yoctometer")
    /\ Last(walk.path) = Metric("Yottameter")
    /\ Len(walk.path) = 21

Tenfold(u, g) == factor(g) = Mul(Num(10), factor(u))

Thousandfold(u, g) == factor(g) = Mul(Num(1000), factor(u))

MetricRange ==
    (FullLadder /\ system(walk.path[1]) = "Metric") =>
        /\ Len(walk.path) = 21
        /\ walk.path[1] = Metric("Yoctometer")
        /\ factor(walk.path[1]) = Pow10(0 - 24)
        /\ Last(walk.path) = Metric("Yottameter")
        /\ factor(Last(walk.path)) = Pow10(24)

\* C8 as stated: the 21 Metric units run from Yoctometer (10^-24 m) to
\* Yottameter (10^24 m) and every two neighbouring Metric units are a factor 10
\* apart.
C8_AllTenfold ==
    /\ MetricRange
    /\ \A i \in Steps :
          (Up /\ system(walk.path[i]) = "Metric") => Tenfold(walk.path[i], walk.path[i + 1])

\* The Metric units whose greater_unit is one decimal order of magnitude up.
DecimalSteps ==
    {Metric(u) : u \in {"Millimeter", "Centimeter", "Decimeter", "Meter", "Decameter",
                        "Hectometer"}}

\* C8 as amended: the 21 Metric units run from Yoctometer (10^-24 m) to
\* Yottameter (10^24 m); neighbouring units are a factor 10 apart from
\* Millimeter up to Kilometer and a factor 1000 apart everywhere else.
C8_TenOrThousandfold ==
    /\ MetricRange
    /\ \A i \in Steps :
          (Up /\ system(walk.path[i]) = "Metric") =>
              IF walk.path[i] \in DecimalSteps
              THEN Tenfold(walk.path[i], walk.path[i + 1])
              ELSE Thousandfold(walk.path[i], walk.path[i + 1])

C8_Witness ==
    /\ FullLadder
    /\ Len(walk.path) = 21
    /\ walk.path[14] = Metric("Kilometer")
    /\ walk.path[15] = Metric("Megameter")
    /\ Thousandfold(walk.path[14], walk.path[15])
    /\ Tenfold(walk.path[13], walk.path[14])


-----------------------------------------------------------------------------
(* The symbol mapping *)

Symbols == {to_string(u) : u \in Unit}

-----------------------------------------------------------------------------
(* Length::normalize *)

\* C10: normalize never crosses systems and never changes the represented
\* length: the result's unit is in the system of the input unit and
\* result.value * factor(result.unit) = value * factor(unit); e.g. 5000 Meter
\* normalizes to 5 Kilometer.  (run.decided: every comparison with 1.0 that the
\* loop made was settled by the exact arithmetic of the model.)
C10_NormalizeKeepsLength ==
    call.op = "normalize" =>
        /\ run.decided
        /\ system(ret.unit) = system(self.unit)
        /\ Mul(ret.value, factor(ret.unit)) = Mul(self.value, factor(self.unit))
        /\ self = new_value_unit(Num(5000), Metric("Meter")) =>
              (ret.value = Num(5) /\ ret.unit = Metric("Kilometer"))

C10_Witness ==
    /\ call.op = "normalize"
    /\ self = new_value_unit(Num(5000), Metric("Meter"))
    /\ ret = new_value_unit(Num(5), Metric("Kilometer"))
    /\ run.iterations = 4


\* The loop of normalize ended on its iteration count, not on its stop test.
CapReached == ~run.done

\* C11: for every input with value >= 1, normalize returns the greatest
\* fitting unit: the unit of the result has no greater_unit, or converting the
\* result to its greater_unit gives a value < 1.
C11_GreatestFittingUnit ==
    (call.op = "normalize" /\ Ge(self.value, One)) =>
        \/ greater_unit(ret.unit) = None
        \/ Lt(to(ret, greater_unit(ret.unit).some).value, One)

\* The same, for the runs that the iteration count did not end.
C11_GreatestFittingUnitWithinCap ==
    (call.op = "normalize" /\ Ge(self.value, One) /\ ~CapReached) =>
        \/ greater_unit(ret.unit) = None
        \/ Lt(to(ret, greater_unit(ret.unit).some).value, One)

\* C12: the cap of 10 iterations is always sufficient: the loop of normalize
\* stops because its stop test fired or a ladder end was reached, never
\* because the iteration count reached 10 while a further step was still due
\* (one more pass would still change the unit).
C12_CapNeverBinds ==
    call.op = "normalize" =>
        \/ run.done
        \/ normalize_step(run).len.unit = run.len.unit

\* C13 as stated: normalizing a Length whose value lies in [1, 1000) of its
\* unit is a no-op (same unit, same value), for every unit.
C13_NoOpBelowThousand ==
    (call.op = "normalize" /\ Ge(self.value, One) /\ Lt(self.value, Num(1000))) =>
        (ret.unit = self.unit /\ ret.value = self.value)

\* How many of unit u make one of its greater_unit g.
StepRatio(u, g) == Div(factor(g), factor(u))

\* C13, amended: normalizing a Length whose value is at least 1 and below the
\* ratio of its unit's greater_unit to its unit (at least 1 when the unit has
\* no greater_unit) is a no-op: same unit, same value.
C13_NoOpBelowNextUnit ==
    (/\ call.op = "normalize"
     /\ Ge(self.value, One)
     /\ greater_unit(self.unit) # None =>
           Lt(self.value, StepRatio(self.unit, greater_unit(self.unit).some))) =>
        (ret.unit = self.unit /\ ret.value = self.value)

C13_Witness ==
    /\ call.op = "normalize"
    /\ self = new_value_unit(Num(50), Metric("Kilometer"))
    /\ ret = self
    /\ run.iterations = 1

-----------------------------------------------------------------------------
(* Length::new_string *)

\* Every character of s from position lo up to, not including, hi is of class.
AllIn(s, lo, hi, class) == \A k \in lo..(hi - 1) : s[k] \in class

\* s from lo up to hi is an unsigned decimal number: digits, or digits, a
\* point and digits.
IsNumber(s, lo, hi) ==
    \E p \in (lo + 1)..hi :
        /\ AllIn(s, lo, p, Digits)
        /\ \/ p = hi
           \/ /\ p + 1 < hi
              /\ s[p] = "."
              /\ AllIn(s, p + 1, hi, Digits)

\* The ways to read s as whitespace, a number, whitespace, a symbol of one to
\* three letters, whitespace: where the number starts and ends and where the
\* symbol starts and ends.
Readings(s) ==
    {r \in [a : 1..(Len(s) + 1), b : 1..(Len(s) + 1), c : 1..(Len(s) + 1), d : 1..(Len(s) + 1)] :
        /\ AllIn(s, 1, r.a, Whitespace)
        /\ r.a < r.b /\ IsNumber(s, r.a, r.b)
        /\ r.b <= r.c /\ AllIn(s, r.b, r.c, Whitespace)
        /\ r.c < r.d /\ r.d - r.c <= 3 /\ AllIn(s, r.c, r.d, Letters)
        /\ AllIn(s, r.d, Len(s) + 1, Whitespace)}

\* The number that the digits of s from lo up to hi denote.
NumberValue(s, lo, hi) ==
    LET digits == SelectSeq(SubSeq(s, lo, hi - 1), LAMBDA c : c \in Digits)
        after == IF \E p \in lo..(hi - 1) : s[p] = "."
                 THEN hi - 1 - (CHOOSE p \in lo..(hi - 1) : s[p] = ".") ELSE 0
    IN  Div(Num(DigitsValue(digits)), Pow10(after))

\* The readings of s whose symbol is the symbol of a unit.
KnownReadings(s) ==
    {r \in Readings(s) : \E u \in Unit : to_string(u) = Join(SubSeq(s, r.c, r.d - 1))}

\* C14: new_string returns a Length exactly when the whole input is optional
\* whitespace, an unsigned decimal number (digits, optionally a point and
\* digits), optional whitespace, a symbol of one to three letters (a-z, A-Z)
\* that is a known unit symbol, matched case-sensitively, and optional
\* whitespace; the Length has that number as value and that symbol's unit.
\* For every other input (a leading sign, an exponent, ".5", "5.", no symbol,
\* an unknown symbol, more than three letters) it returns absent.
C14_ParsesExactlyTheGrammar ==
    made # None =>
        /\ made.result # None <=> KnownReadings(input) # {}
        /\ \A r \in KnownReadings(input) :
              /\ to_string(made.result.some.unit) = Join(SubSeq(input, r.c, r.d - 1))
              /\ made.result.some.value = NumberValue(input, r.a, r.b)
        /\ input = <<"2", "3", ".", "5", " ", "k", "m">> =>
              /\ made.result.some.unit = Metric("Kilometer")
              /\ made.result.some.value = Dec(235, 1)
        /\ input \in {<<"-", "5", "m">>, <<"5", "e", "3", "m">>, <<".", "5", "m">>,
                      <<"5", ".", "m">>, <<"5">>, <<"5", " ", "x", "y", "z">>,
                      <<"5", " ", "d", "a", "m", "s">>, <<"5", " ", "K", "m">>} =>
              made.result = None

C14_Witness ==
    /\ input = <<"2", ".", "3", " ", "l", "y">>
    /\ made # None
    /\ made.result # None
    /\ made.result.some.unit = Astronomic("Lightyear")
    /\ made.result.some.value = Dec(23, 1)

C14_WitnessAbsent ==
    /\ input = <<"5", ".", "m">>
    /\ made # None
    /\ made.result = None

\* C15: the parser supports the micro sign: new_string("5 µm") returns a
\* Length in Micrometer, so that new_string accepts every one of the 34
\* symbols that to_string produces.
C15_EverySymbolParses ==
    (/\ made # None
     /\ Len(input) > 2
     /\ input[1] = "5" /\ input[2] = " ") =>
        \A u \in Unit :
            to_string(u) = Join(SubSeq(input, 3, Len(input))) =>
                /\ made.result # None
                /\ made.result.some.unit = u

\* The same, for the symbols of letters a-z, A-Z.
C15_EveryLetterSymbolParses ==
    (/\ made # None
     /\ Len(input) > 2
     /\ input[1] = "5" /\ input[2] = " "
     /\ AllIn(input, 3, Len(input) + 1, Letters)) =>
        \A u \in Unit :
            to_string(u) = Join(SubSeq(input, 3, Len(input))) =>
                /\ made.result # None
                /\ made.result.some.unit = u

\* C16: after a successful new_string(s), get_original_string returns the
\* whole input s with its leading, inner and trailing whitespace ("2m" gives
\* "2m", "23.5 km" gives "23.5 km"); for a Length built by new or
\* new_value_unit it returns the empty string.
C16_OriginalStringIsInput ==
    /\ (made # None /\ made.result # None) =>
          get_original_string(made.result.some) = Join(input)
    /\ call.op \in {"new", "new_value_unit"} => get_original_string(self) = ""

C16_Witness ==
    /\ input = <<" ", " ", "5", " ", " ", "k", "m", " ", " ">>
    /\ made # None
    /\ made.result # None
    /\ get_original_string(made.result.some) = "  5  km  "


-----------------------------------------------------------------------------
(* The arithmetic of Length, the in-place forms, the original string *)

\* The Lengths a and b are the same length.
SameLength(a, b) == Mul(a.value, MetersPer(a.unit)) = Mul(b.value, MetersPer(b.unit))

\* r, 1 + r and 1 - r for the ratios r of Ratios.
RatioSums == {<<Dec(4, 1), Dec(14, 1), Dec(6, 1)>>, <<One, Num(2), Zero>>}

\* C17: for every pair of Lengths a and b, in the same or in different
\* systems, a.add(b) and a.subtract(b) return a Length in a's unit whose value
\* is a.value + b.to(a.unit).value, respectively a.value - b.to(a.unit).value:
\* if b is r times as long as a, the value is (1 + r) * a.value, respectively
\* (1 - r) * a.value; 5 km + 2000 m = 7 km and 5 km - 2000 m = 3 km.
C17_AddSubtract ==
    /\ call.op = "add" =>
          /\ ret.unit = self.unit
          /\ ret.value = Add(self.value, to(call.arg, self.unit).value)
          /\ \A k \in RatioSums :
                SameLength(call.arg, [self EXCEPT !.value = Mul(@, k[1])]) =>
                    ret.value = Mul(self.value, k[2])
          /\ (/\ self.unit = Metric("Kilometer") /\ self.value = Num(5)
              /\ call.arg = new_value_unit(Num(2000), Metric("Meter"))) =>
                ret.value = Num(7)
    /\ call.op = "subtract" =>
          /\ ret.unit = self.unit
          /\ ret.value = Sub(self.value, to(call.arg, self.unit).value)
          /\ \A k \in RatioSums :
                SameLength(call.arg, [self EXCEPT !.value = Mul(@, k[1])]) =>
                    ret.value = Mul(self.value, k[3])
          /\ (/\ self.unit = Metric("Kilometer") /\ self.value = Num(5)
              /\ call.arg = new_value_unit(Num(2000), Metric("Meter"))) =>
                ret.value = Num(3)

C17_Witness ==
    /\ call.op = "add"
    /\ self.unit = Metric("Kilometer") /\ self.value = Num(5)
    /\ call.arg = new_value_unit(Num(2000), Metric("Meter"))
    /\ ret = new_value_unit(Num(7), Metric("Kilometer"))

C17_WitnessSubtract ==
    /\ call.op = "subtract"
    /\ self.unit = Imperial("Mile") /\ self.value = Dec(25, 1)
    /\ call.arg.unit = Metric("Meter")
    /\ ret = new_value_unit(Dec(15, 1), Imperial("Mile"))

\* The receiver after the step has the value and the unit of length.
ReceiverBecomes(length) == self'.value = length.value /\ self'.unit = length.unit

\* C18: each in-place form agrees with its value-returning form: after
\* normalize_by_ref, to_by_ref, add_by_ref, subtract_by_ref, multiply_by_ref
\* and divide_by_ref the receiver has exactly the value and the unit that
\* normalize, to, add, subtract, multiply_by and divide_by return for the same
\* receiver and argument.
C18_InPlaceAgrees ==
    [][ops' = ops + 1 =>
          /\ call'.op = "normalize_by_ref" => ReceiverBecomes(normalize(self))
          /\ call'.op = "to_by_ref" => ReceiverBecomes(to(self, call'.arg))
          /\ call'.op = "add_by_ref" => ReceiverBecomes(add(self, call'.arg))
          /\ call'.op = "subtract_by_ref" => ReceiverBecomes(subtract(self, call'.arg))
          /\ call'.op = "multiply_by_ref" => ReceiverBecomes(multiply_by(self, call'.arg))
          /\ call'.op = "divide_by_ref" => ReceiverBecomes(divide_by(self, call'.arg))]_vars

C18_Witness ==
    /\ call.op = "add_by_ref"
    /\ call.arg = new_value_unit(Num(2000), Metric("Meter"))
    /\ self.unit = Metric("Kilometer") /\ self.value = Num(7)
    /\ ops = 1

\* The operations that return a Length and take the receiver by reference.
ValueOps == {"to", "normalize", "add", "subtract", "multiply_by", "divide_by"}

\* C19: the original string is set only by parsing: every Length returned by
\* new, new_value_unit, to, normalize, add, subtract, multiply_by and divide_by
\* has an empty original string, whatever the receiver's original string was;
\* only new_string returns a Length with a non-empty one.
C19_OnlyParsingSetsOriginalString ==
    /\ call.op \in {"new", "new_value_unit"} => self.original_string = ""
    /\ call.op \in ValueOps => ret.original_string = ""
    /\ (made # None /\ made.result # None) => made.result.some.original_string # ""

\* The same, without to and normalize.
C19_ArithmeticClearsOriginalString ==
    /\ call.op \in {"new", "new_value_unit"} => self.original_string = ""
    /\ call.op \in ValueOps \ {"to", "normalize"} => ret.original_string = ""
    /\ (call.op = "to" /\ call.arg # self.unit) => ret.original_string = ""
    /\ (made # None /\ made.result # None) => made.result.some.original_string # ""

\* C20: the value-returning operations to, normalize, add, subtract,
\* multiply_by and divide_by leave the receiver untouched (unit, value and
\* original string as before), and a later in-place change of the returned
\* Length does not change the receiver.
C20_ReceiverUntouched ==
    [][call'.op \in ValueOps \cup {"returned.multiply_by_ref"} => self' = self]_vars

C20_Witness ==
    /\ call.op = "returned.multiply_by_ref"
    /\ self = [unit |-> Metric("Kilometer"), value |-> Num(5), original_string |-> "5km"]
    /\ ret = [unit |-> Metric("Kilometer"), value |-> Num(50), original_string |-> "5km"]


-----------------------------------------------------------------------------
(* The pivot units of Length::to *)

\* The unit in which a Length enters the final scaling to a unit of sys.
PivotUnit(sys) ==
    CASE sys = "Metric" -> Metric("Meter")
      [] sys = "Imperial" -> Imperial("Yard")
      [] sys = "Astronomic" -> Astronomic("Lightyear")

\* C21: in every cross-system conversion the Length handed to the final
\* within-system scaling is in the pivot unit of the destination system (Meter,
\* Yard, Lightyear) and in no other unit of that system; a conversion between
\* Imperial and Astronomic passes, in both directions, through a value in
\* Meter; the fall-through arms `_ => {}` are never reached.
C21_FixedPivots ==
    (call.op = "to" /\ system(self.unit) # system(call.arg)) =>
        /\ run.scaled # None
        /\ run.scaled.unit = PivotUnit(system(call.arg))
        /\ ~run.fell
        /\ {system(self.unit), system(call.arg)} = {"Imperial", "Astronomic"} =>
              \E i \in 1..Len(run.via) :
                  /\ run.via[i].unit = Metric("Meter")
                  /\ SameLength(run.via[i], self)

C21_Witness ==
    /\ call.op = "to"
    /\ self.unit = Imperial("Mile")
    /\ call.arg = Astronomic("Parsec")
    /\ run.scaled.unit = Astronomic("Lightyear")
    /\ Len(run.via) = 2
    /\ run.via[1].unit = Imperial("Yard")
    /\ run.via[2].unit = Metric("Meter")

C21_WitnessToImperial ==
    /\ call.op = "to"
    /\ self.unit = Astronomic("Parsec")
    /\ call.arg = Imperial("Mile")
    /\ run.scaled.unit = Imperial("Yard")
    /\ run.via[2].unit = Metric("Meter")


-----------------------------------------------------------------------------
(* The loop of Length::normalize, pass by pass *)

\* The loop states of normalize from st on: st before each pass, and the final
\* state.
RECURSIVE LoopStates(_)
LoopStates(st) ==
    IF ~st.done /\ st.iterations < 10
    THEN <<st>> \o LoopStates(normalize_step(st))
    ELSE <<st>>

\* The loop states of self.normalize().
Passes == LoopStates([len |-> self, done |-> FALSE, iterations |-> 0, decided |-> TRUE])

\* The position of unit u on its ladder: how many units are below it.
RECURSIVE Rank(_)
Rank(u) == IF smaller_unit(u) = None THEN 0 ELSE 1 + Rank(smaller_unit(u).some)

\* C22: the step-up rule of normalize: when the input value is >= 1, the
\* current value is >= 1 at the start of every pass of the loop, a step to the
\* greater unit is committed only if the converted value is still >= 1, the
\* unit never moves to a smaller neighbour, and the returned value is >= 1.
C22_StepUpRule ==
    (call.op = "normalize" /\ Ge(self.value, One)) =>
        /\ ret = Passes[Len(Passes)].len
        /\ Ge(ret.value, One)
        /\ \A i \in 1..Len(Passes) : Ge(Passes[i].len.value, One)
        /\ \A i \in 1..(Len(Passes) - 1) :
              \/ Passes[i + 1].len.unit = Passes[i].len.unit
              \/ /\ greater_unit(Passes[i].len.unit) = Some(Passes[i + 1].len.unit)
                 /\ Passes[i + 1].len.value =
                       to(Passes[i].len, Passes[i + 1].len.unit).value
                 /\ Ge(to(Passes[i].len, Passes[i + 1].len.unit).value, One)

C22_Witness ==
    /\ call.op = "normalize"
    /\ self = new_value_unit(Num(50), Imperial("Inch"))
    /\ ret.unit = Imperial("Yard")
    /\ ret.value = Div(Num(50), Num(36))
    /\ run.iterations = 3

\* C23: normalize ends after at most 10 passes of its loop, each pass moves the
\* unit by at most one ladder position, and so the returned unit is at most 10
\* ladder positions away from the input unit.
C23_AtMostTenPasses ==
    call.op = "normalize" =>
        /\ run.iterations \in 1..10
        /\ run.iterations = Len(Passes) - 1
        /\ ret = Passes[Len(Passes)].len
        /\ \A i \in 1..(Len(Passes) - 1) :
              Rank(Passes[i + 1].len.unit) - Rank(Passes[i].len.unit) \in {0 - 1, 0, 1}
        /\ Rank(ret.unit) - Rank(self.unit) \in (0 - 10)..10

C23_Witness ==
    /\ call.op = "normalize"
    /\ self = new_value_unit(Pow10(30), Metric("Yoctometer"))
    /\ ret.unit = Metric("Meter")
    /\ run.iterations = 10
    /\ Rank(ret.unit) - Rank(self.unit) = 10

\* The units without a smaller_unit, and those without a greater_unit.
Bottoms == {u \in Unit : smaller_unit(u) = None}

Tops == {u \in Unit : greater_unit(u) = None}

\* C24: at a ladder end normalize stops without changing anything: if the
\* value is < 1 and the unit has no smaller_unit (Yoctometer, Inch,
\* AstronomicalUnit), or the value is >= 1 and the unit has no greater_unit
\* (Yottameter, Mile, Megaparsec), normalize returns the same value and the
\* same unit after a single pass.
C24_StopsAtLadderEnd ==
    /\ Bottoms = {Metric("Yoctometer"), Imperial("Inch"), Astronomic("AstronomicalUnit")}
    /\ Tops = {Metric("Yottameter"), Imperial("Mile"), Astronomic("Megaparsec")}
    /\ (/\ call.op = "normalize"
        /\ \/ Lt(self.value, One) /\ self.unit \in Bottoms
           \/ Ge(self.value, One) /\ self.unit \in Tops) =>
          /\ ret.value = self.value
          /\ ret.unit = self.unit
          /\ run.iterations = 1
          /\ run.done

C24_Witness ==
    /\ call.op = "normalize"
    /\ self = new_value_unit(Dec(5, 1), Metric("Yoctometer"))
    /\ ret = self
    /\ run.iterations = 1

C24_WitnessTop ==
    /\ call.op = "normalize"
    /\ self = new_value_unit(Num(5000), Imperial("Mile"))
    /\ ret = self
    /\ run.iterations = 1

\* C25: normalize is idempotent: for every input Length x,
\* normalize(normalize(x)) has the same unit and the same value as
\* normalize(x).
C25_Idempotent ==
    call.op = "normalize" =>
        /\ normalize(ret).unit = ret.unit
        /\ normalize(ret).value = ret.value

\* The same, for the runs that the iteration count did not end.
C25_IdempotentWithinCap ==
    (call.op = "normalize" /\ ~CapReached) =>
        /\ normalize(ret).unit = ret.unit
        /\ normalize(ret).value = ret.value

\* C26: for an input value that is zero or negative, normalize takes the
\* step-down branch in every pass and never steps up: the result unit is
\* min(10, number of smaller units below the input unit) positions down the
\* ladder, and the sign of the value is preserved; the zero Length of
\* Length::new() (0 Meter) normalizes to 0 Yoctometer.
C26_NonPositiveStepsDown ==
    (call.op = "normalize" /\ self.value.sgn \in {0 - 1, 0}) =>
        /\ \A i \in 1..(Len(Passes) - 1) :
              \/ smaller_unit(Passes[i].len.unit) = Some(Passes[i + 1].len.unit)
              \/ /\ smaller_unit(Passes[i].len.unit) = None
                 /\ Passes[i + 1].len.unit = Passes[i].len.unit
        /\ Rank(ret.unit) = Rank(self.unit) - Min(10, Rank(self.unit))
        /\ system(ret.unit) = system(self.unit)
        /\ ret.value.sgn = self.value.sgn
        /\ self = new => (ret.unit = Metric("Yoctometer") /\ ret.value = Zero)

C26_Witness ==
    /\ call = [op |-> "normalize", arg |-> None]
    /\ self = new
    /\ ret = new_value_unit(Zero, Metric("Yoctometer"))
    /\ run.iterations = 10
    /\ ~run.done

C26_WitnessNegative ==
    /\ call.op = "normalize"
    /\ self = new_value_unit(Num(0 - 2), Metric("Yottameter"))
    /\ ret.unit = Metric("Meter")
    /\ ret.value.sgn = 0 - 1
    /\ ~run.done


-----------------------------------------------------------------------------
(* The in-place operations and the original string *)

\* C27: no in-place operation changes the original string: after any sequence
\* of to_by_ref, normalize_by_ref, add_by_ref, subtract_by_ref, multiply_by_ref
\* and divide_by_ref on a Length, get_original_string returns what it returned
\* right after the construction (for a parsed Length it may no longer describe
\* the current value and unit); add_by_ref, subtract_by_ref, multiply_by_ref
\* and divide_by_ref also leave the unit unchanged.
C27_InPlaceKeepsOriginalString ==
    [][/\ ops' = ops + 1 =>
             /\ call'.op \in {"to_by_ref", "normalize_by_ref", "add_by_ref",
                              "subtract_by_ref", "multiply_by_ref", "divide_by_ref"}
             /\ get_original_string(self') = get_original_string(self)
             /\ call'.op \in {"add_by_ref", "subtract_by_ref", "multiply_by_ref",
                              "divide_by_ref"} => self'.unit = self.unit
       /\ call'.op = "get_original_string" =>
             /\ self' = self
             /\ ret' = [string |-> self.original_string]]_vars

C27_Witness ==
    /\ client = "inplace"
    /\ ops = 2
    /\ call.op = "get_original_string"
    /\ self.unit = Imperial("Inch")
    /\ self.value # Num(5)
    /\ ret = [string |-> "5km"]


=============================================================================
